---------------------------- MODULE Spec2Model ----------------------------
(***************************************************************************)
(* A model of axe_game.cpp: the frame loop of main() with its three game   *)
(* states, Player::Move, Axe::Move, the scoring rule, the difficulty       *)
(* scaling rule and the collision check.                                   *)
(*                                                                         *)
(* Numbers.  Positions, radius, length and score are C++ ints and are      *)
(* integers here.  The three floats of the program are kept in fixed       *)
(* point: a frame time and the score timer in milliseconds, an axe speed   *)
(* in thousandths of a pixel per second.  static_cast<int> truncates       *)
(* toward zero and is modelled by Trunc.  The product speed * 1.1f is kept *)
(* to the thousandth (truncated toward zero), which is finer than what the *)
(* claims distinguish.                                                     *)
(*                                                                         *)
(* One step of the model is one iteration of the while loop of main().     *)
(***************************************************************************)
EXTENDS Integers, FiniteSets, Sequences, TLC

(***************************************************************************)
(* Program constants.                                                      *)
(***************************************************************************)
screenWidth == 800
screenHeight == 450
PlayerRadius == 25
PlayerSpeed == 300
AxeLength == 50
AxeStartX == 300
AxeStartY == 0
AxeStartSpeedX == 150000
AxeStartSpeedY == 200000
MaxSpeedX == 300000
MaxSpeedY == 400000
ScoreInterval == 1000
Milestone == 10

\* Units of the fixed-point representation.
MilliPerUnit == 1000

\* enum GameState
MENU == "MENU"
PLAYING == "PLAYING"
GAME_OVER == "GAME_OVER"
GameState == {MENU, PLAYING, GAME_OVER}

(***************************************************************************)
(* Bounds of the model.                                                    *)
(***************************************************************************)
\* Playing frames are explored while score is below this bound.
MaxScore == 2
\* Rounds explored: a restart is taken while fewer rounds were started.
MaxRounds == 2
\* The same bound for the long single-round specification.
MaxScoreLong == 81
\* The same bound for the specification of one round with all frame times.
MaxScoreRound == 3
\* Inputs of the collision specification: radius in 1..MaxRadius, side
\* length in 1..MaxLength, corner of the square in -MaxCorner..0 and centre
\* of the circle in -MaxCentre..MaxCentre, on both axes.
MaxRadius == 5
MaxLength == 2
MaxCorner == 1
MaxCentre == 8

\* The same bound for the specification of the keys at the bounds.
MaxScoreKeys == 3

\* Frame times GetFrameTime() may return, in milliseconds.
FrameTimes == {500, 2000}
\* The frame time of the long specification: a steady two frames a second.
FrameTimesLong == {500}
\* Frame times of the specification of the keys at the bounds: 1250 ms
\* carries the player from the centre exactly onto the left or right bound.
FrameTimesKeys == {500, 1250}

VARIABLES
    currentState,            \* GameState currentState
    player,                  \* Player {x, y}
    axe,                     \* Axe {x, y, speedX, speedY}
    score,                   \* int score
    highScore,               \* int highScore
    scoreTimer,              \* float scoreTimer, in milliseconds
    lastSpeedIncreaseScore,  \* int lastSpeedIncreaseScore
    collisionDetected,       \* bool collisionDetected
    input,                   \* what the frame just executed read from raylib
    frame,                   \* history of the frame just executed
    rounds                   \* history: summary of the rounds played

vars == <<currentState, player, axe, score, highScore, scoreTimer,
          lastSpeedIncreaseScore, collisionDetected, input, frame, rounds>>

(***************************************************************************)
(* Arithmetic helpers.                                                     *)
(***************************************************************************)
\* static_cast<int>(n / d): truncation toward zero.
Trunc(n, d) == IF n >= 0 THEN n \div d ELSE -((-n) \div d)

Abs(n) == IF n >= 0 THEN n ELSE -n

Max(a, b) == IF a >= b THEN a ELSE b

Clamp(v, lo, hi) == IF v < lo THEN lo ELSE IF v > hi THEN hi ELSE v

(***************************************************************************)
(* Inputs.  A frame reads the frame time, the held direction keys (D or    *)
(* RIGHT, A or LEFT, W or UP, S or DOWN) and the newly pressed SPACE / R.  *)
(* What a frame does not read is recorded with its neutral value.          *)
(***************************************************************************)
NoInput == [dt |-> 0, right |-> FALSE, left |-> FALSE, up |-> FALSE,
            down |-> FALSE, space |-> FALSE, r |-> FALSE]

PlayingInputs(dts) ==
    [dt : dts, right : BOOLEAN, left : BOOLEAN, up : BOOLEAN,
     down : BOOLEAN, space : {FALSE}, r : {FALSE}]

(***************************************************************************)
(* Player::Move                                                            *)
(***************************************************************************)
MovementAmount(speed, dt) == Trunc(speed * dt, MilliPerUnit)

CanMoveRight(x) == x < screenWidth - PlayerRadius
CanMoveLeft(x) == x > PlayerRadius
CanMoveUp(y) == y > PlayerRadius
CanMoveDown(y) == y < screenHeight - PlayerRadius

\* Mutant: the left key is handled before the right key.
PlayerMoveLeftFirst(p, speed, in) ==
    LET m  == MovementAmount(speed, in.dt)
        x1 == IF in.left /\ CanMoveLeft(p.x) THEN p.x - m ELSE p.x
        x2 == IF in.right /\ CanMoveRight(x1) THEN x1 + m ELSE x1
        y1 == IF in.up /\ CanMoveUp(p.y) THEN p.y - m ELSE p.y
        y2 == IF in.down /\ CanMoveDown(y1) THEN y1 + m ELSE y1
    IN  [x |-> x2, y |-> y2]

PlayerMove(p, speed, in) ==
    LET m  == MovementAmount(speed, in.dt)
        x1 == IF in.right /\ CanMoveRight(p.x) THEN p.x + m ELSE p.x
        x2 == IF in.left /\ CanMoveLeft(x1) THEN x1 - m ELSE x1
        y1 == IF in.up /\ CanMoveUp(p.y) THEN p.y - m ELSE p.y
        y2 == IF in.down /\ CanMoveDown(y1) THEN y1 + m ELSE y1
    IN  [x |-> x2, y |-> y2]

(***************************************************************************)
(* Axe::Move                                                               *)
(***************************************************************************)
Displacement(speed, dt) == Trunc(speed * dt, MilliPerUnit * MilliPerUnit)

\* Mutant: the bounce test counts touching the edge as crossing it.
OutOfBoundsOnTouch(pos, length, limit) == pos + length >= limit \/ pos <= 0

OutOfBounds(pos, length, limit) == pos + length > limit \/ pos < 0

Bounce(speed, out) == IF out THEN -speed ELSE speed

AxeMove(a, dt) ==
    LET nx == a.x + Displacement(a.speedX, dt)
        ny == a.y + Displacement(a.speedY, dt)
    IN  [x |-> nx, y |-> ny,
         speedX |-> Bounce(a.speedX, OutOfBounds(nx, AxeLength, screenWidth)),
         speedY |-> Bounce(a.speedY, OutOfBounds(ny, AxeLength, screenHeight))]

(***************************************************************************)
(* Scoring rule of the PLAYING case.                                       *)
(***************************************************************************)
\* Mutant: a counted second resets the timer to 0.
ScoreStepResetsTimer(s, t, dt) ==
    LET t1 == t + dt
    IN  IF t1 >= ScoreInterval
        THEN [score |-> s + 1, scoreTimer |-> 0]
        ELSE [score |-> s, scoreTimer |-> t1]

ScoreStep(s, t, dt) ==
    LET t1 == t + dt
    IN  IF t1 >= ScoreInterval
        THEN [score |-> s + 1, scoreTimer |-> t1 - ScoreInterval]
        ELSE [score |-> s, scoreTimer |-> t1]

(***************************************************************************)
(* Difficulty scaling of the PLAYING case.                                 *)
(***************************************************************************)
Faster(speed) == Trunc(speed * 11, 10)

\* Mutant: the milestone test forgets the checkpoint.
ScaleDueNoCheckpoint(s, last) == s > 0 /\ s % Milestone = 0

ScaleDue(s, last) == s > last /\ s % Milestone = 0

ScaleAxis(speed, cap) == IF speed < cap THEN Faster(speed) ELSE speed

ScaleStep(a, s, last) ==
    IF ScaleDue(s, last)
    THEN [axe |-> [a EXCEPT !.speedX = ScaleAxis(a.speedX, MaxSpeedX),
                            !.speedY = ScaleAxis(a.speedY, MaxSpeedY)],
          last |-> s, fired |-> TRUE]
    ELSE [axe |-> a, last |-> last, fired |-> FALSE]

(***************************************************************************)
(* CheckCollision: the wrapper of raylib's CheckCollisionCircleRec.        *)
(***************************************************************************)
CheckCollisionCircleRec(cx, cy, radius, rx, ry, rw, rh) ==
    LET dx == cx - Clamp(cx, rx, rx + rw)
        dy == cy - Clamp(cy, ry, ry + rh)
    IN  dx * dx + dy * dy <= radius * radius

\* Mutant: the rectangle is built with axe.x for both coordinates.
CheckCollisionAtSameCorner(px, py, radius, ax, ay, length) ==
    CheckCollisionCircleRec(px, py, radius, ax, ax, length, length)

\* The body of CheckCollision on the fields it reads: player.x, player.y,
\* player.radius, axe.x, axe.y and axe.length.
CheckCollisionAt(px, py, radius, ax, ay, length) ==
    CheckCollisionCircleRec(px, py, radius, ax, ay, length, length)

CheckCollision(p, a) ==
    CheckCollisionAt(p.x, p.y, PlayerRadius, a.x, a.y, AxeLength)

(***************************************************************************)
(* The entities as main() constructs them.                                 *)
(***************************************************************************)
StartPlayer == [x |-> screenWidth \div 2, y |-> screenHeight \div 2]
StartAxe == [x |-> AxeStartX, y |-> AxeStartY,
             speedX |-> AxeStartSpeedX, speedY |-> AxeStartSpeedY]

(***************************************************************************)
(* The reset block of case MENU (on SPACE).                                *)
(***************************************************************************)
StartReset ==
    /\ player' = [x |-> screenWidth \div 2, y |-> screenHeight \div 2]
    /\ axe' = [x |-> 300, y |-> 0, speedX |-> 150000, speedY |-> 200000]
    /\ score' = 0
    /\ scoreTimer' = 0
    /\ lastSpeedIncreaseScore' = 0
    /\ currentState' = PLAYING

(***************************************************************************)
(* The reset block of case GAME_OVER (on R).                               *)
(***************************************************************************)
\* Mutant: the restart forgets to reset the score.
RestartResetKeepsScore ==
    /\ player' = [x |-> screenWidth \div 2, y |-> screenHeight \div 2]
    /\ axe' = [x |-> 300, y |-> 0, speedX |-> 150000, speedY |-> 200000]
    /\ score' = score
    /\ scoreTimer' = 0
    /\ lastSpeedIncreaseScore' = 0
    /\ currentState' = PLAYING

\* Mutant: the restart forgets to reset the speed of the axe.
RestartResetKeepsSpeed ==
    /\ player' = [x |-> screenWidth \div 2, y |-> screenHeight \div 2]
    /\ axe' = [axe EXCEPT !.x = 300, !.y = 0]
    /\ score' = 0
    /\ scoreTimer' = 0
    /\ lastSpeedIncreaseScore' = 0
    /\ currentState' = PLAYING

RestartReset ==
    /\ player' = [x |-> screenWidth \div 2, y |-> screenHeight \div 2]
    /\ axe' = [x |-> 300, y |-> 0, speedX |-> 150000, speedY |-> 200000]
    /\ score' = 0
    /\ scoreTimer' = 0
    /\ lastSpeedIncreaseScore' = 0
    /\ currentState' = PLAYING

NoFrame == [began |-> MENU, score |-> 0, high |-> 0, from |-> StartPlayer,
            moved |-> StartAxe, scaled |-> FALSE]

NoRounds == [started |-> 0, best |-> 0, scalings |-> 0, elapsed |-> 0]

Init ==
    /\ currentState = MENU
    /\ player = StartPlayer
    /\ axe = StartAxe
    /\ score = 0
    /\ highScore = 0
    /\ scoreTimer = 0
    /\ lastSpeedIncreaseScore = 0
    /\ collisionDetected = FALSE
    /\ input = NoInput
    /\ frame = NoFrame
    /\ rounds = NoRounds

(***************************************************************************)
(* case MENU                                                               *)
(***************************************************************************)
MenuFrame ==
    /\ currentState = MENU
    /\ \E space \in BOOLEAN :
         /\ input' = [NoInput EXCEPT !.space = space]
         /\ IF space
            THEN /\ StartReset
                 /\ rounds' = [rounds EXCEPT !.started = @ + 1, !.scalings = 0,
                                             !.elapsed = 0]
            ELSE UNCHANGED <<player, axe, score, scoreTimer,
                             lastSpeedIncreaseScore, currentState, rounds>>
    /\ frame' = [began |-> MENU, score |-> score, high |-> highScore,
                 from |-> player, moved |-> axe, scaled |-> FALSE]
    /\ UNCHANGED <<highScore, collisionDetected>>

(***************************************************************************)
(* case PLAYING                                                            *)
(***************************************************************************)
\* Mutant: a collision sends the game back to the menu.
NextStateToMenu(hit) == IF hit THEN MENU ELSE PLAYING

NextState(hit) == IF hit THEN GAME_OVER ELSE PLAYING

\* Mutant: the collision is checked before the entities move.
PlayingFrameChecksBeforeMove(dts, maxScore) ==
    /\ currentState = PLAYING
    /\ score < maxScore
    /\ \E in \in PlayingInputs(dts) :
         LET p   == PlayerMove(player, PlayerSpeed, in)
             a   == AxeMove(axe, in.dt)
             sc  == ScoreStep(score, scoreTimer, in.dt)
             sl  == ScaleStep(a, sc.score, lastSpeedIncreaseScore)
             hit == CheckCollision(player, axe)
         IN  /\ input' = in
             /\ player' = p
             /\ axe' = sl.axe
             /\ score' = sc.score
             /\ scoreTimer' = sc.scoreTimer
             /\ lastSpeedIncreaseScore' = sl.last
             /\ collisionDetected' = hit
             /\ currentState' = NextState(hit)
             /\ frame' = [began |-> PLAYING, score |-> score,
                          high |-> highScore, from |-> player, moved |-> a,
                          scaled |-> sl.fired]
             /\ rounds' = [rounds EXCEPT
                             !.best = IF hit THEN Max(@, sc.score) ELSE @,
                             !.scalings = IF sl.fired THEN @ + 1 ELSE @,
                             !.elapsed = @ + in.dt]
    /\ UNCHANGED highScore

\* Mutant: the frame that detects the collision also writes the high score.
PlayingFrameWritesHighScore(dts, maxScore) ==
    /\ currentState = PLAYING
    /\ score < maxScore
    /\ \E in \in PlayingInputs(dts) :
         LET p   == PlayerMove(player, PlayerSpeed, in)
             a   == AxeMove(axe, in.dt)
             sc  == ScoreStep(score, scoreTimer, in.dt)
             sl  == ScaleStep(a, sc.score, lastSpeedIncreaseScore)
             hit == CheckCollision(p, sl.axe)
         IN  /\ input' = in
             /\ player' = p
             /\ axe' = sl.axe
             /\ score' = sc.score
             /\ scoreTimer' = sc.scoreTimer
             /\ lastSpeedIncreaseScore' = sl.last
             /\ collisionDetected' = hit
             /\ currentState' = NextState(hit)
             /\ highScore' = IF hit /\ sc.score > highScore
                             THEN sc.score ELSE highScore
             /\ frame' = [began |-> PLAYING, score |-> score,
                          high |-> highScore, from |-> player, moved |-> a,
                          scaled |-> sl.fired]
             /\ rounds' = [rounds EXCEPT
                             !.best = IF hit THEN Max(@, sc.score) ELSE @,
                             !.scalings = IF sl.fired THEN @ + 1 ELSE @,
                             !.elapsed = @ + in.dt]

PlayingFrame(dts, maxScore) ==
    /\ currentState = PLAYING
    /\ score < maxScore
    /\ \E in \in PlayingInputs(dts) :
         LET p   == PlayerMove(player, PlayerSpeed, in)
             a   == AxeMove(axe, in.dt)
             sc  == ScoreStep(score, scoreTimer, in.dt)
             sl  == ScaleStep(a, sc.score, lastSpeedIncreaseScore)
             hit == CheckCollision(p, sl.axe)
         IN  /\ input' = in
             /\ player' = p
             /\ axe' = sl.axe
             /\ score' = sc.score
             /\ scoreTimer' = sc.scoreTimer
             /\ lastSpeedIncreaseScore' = sl.last
             /\ collisionDetected' = hit
             /\ currentState' = NextState(hit)
             /\ frame' = [began |-> PLAYING, score |-> score,
                          high |-> highScore, from |-> player, moved |-> a,
                          scaled |-> sl.fired]
             /\ rounds' = [rounds EXCEPT
                             !.best = IF hit THEN Max(@, sc.score) ELSE @,
                             !.scalings = IF sl.fired THEN @ + 1 ELSE @,
                             !.elapsed = @ + in.dt]
    /\ UNCHANGED highScore

(***************************************************************************)
(* case GAME_OVER                                                          *)
(***************************************************************************)
\* Mutant: the high score is overwritten without the comparison.
NewHighScoreOverwrites(s, h) == s

NewHighScore(s, h) == IF s > h THEN s ELSE h

\* Mutant: the axe keeps moving while the game is over.
GameOverFrameMovesAxe(maxRounds) ==
    /\ currentState = GAME_OVER
    /\ highScore' = NewHighScore(score, highScore)
    /\ \E r \in BOOLEAN :
         /\ r => rounds.started < maxRounds
         /\ input' = [NoInput EXCEPT !.r = r]
         /\ IF r
            THEN /\ RestartReset
                 /\ rounds' = [rounds EXCEPT !.started = @ + 1, !.scalings = 0,
                                             !.elapsed = 0]
            ELSE /\ axe' = AxeMove(axe, 500)
                 /\ UNCHANGED <<player, score, scoreTimer,
                                lastSpeedIncreaseScore, currentState, rounds>>
    /\ frame' = [began |-> GAME_OVER, score |-> score, high |-> highScore,
                 from |-> player, moved |-> axe, scaled |-> FALSE]
    /\ UNCHANGED collisionDetected

\* Mutant: the restart resets the score before the high score is compared.
GameOverFrameResetsFirst(maxRounds) ==
    /\ currentState = GAME_OVER
    /\ \E r \in BOOLEAN :
         /\ r => rounds.started < maxRounds
         /\ input' = [NoInput EXCEPT !.r = r]
         /\ IF r
            THEN /\ RestartReset
                 /\ rounds' = [rounds EXCEPT !.started = @ + 1, !.scalings = 0,
                                             !.elapsed = 0]
            ELSE UNCHANGED <<player, axe, score, scoreTimer,
                             lastSpeedIncreaseScore, currentState, rounds>>
    /\ highScore' = NewHighScore(score', highScore)
    /\ frame' = [began |-> GAME_OVER, score |-> score, high |-> highScore,
                 from |-> player, moved |-> axe, scaled |-> FALSE]
    /\ UNCHANGED collisionDetected

GameOverFrame(maxRounds) ==
    /\ currentState = GAME_OVER
    /\ highScore' = NewHighScore(score, highScore)
    /\ \E r \in BOOLEAN :
         /\ r => rounds.started < maxRounds
         /\ input' = [NoInput EXCEPT !.r = r]
         /\ IF r
            THEN /\ RestartReset
                 /\ rounds' = [rounds EXCEPT !.started = @ + 1, !.scalings = 0,
                                             !.elapsed = 0]
            ELSE UNCHANGED <<player, axe, score, scoreTimer,
                             lastSpeedIncreaseScore, currentState, rounds>>
    /\ frame' = [began |-> GAME_OVER, score |-> score, high |-> highScore,
                 from |-> player, moved |-> axe, scaled |-> FALSE]
    /\ UNCHANGED collisionDetected

Playing == PlayingFrame(FrameTimes, MaxScore)
GameOver == GameOverFrame(MaxRounds)

Next == MenuFrame \/ Playing \/ GameOver

Spec == Init /\ [][Next]_vars

PlayingLong == PlayingFrame(FrameTimesLong, MaxScoreLong)
GameOverLong == GameOverFrame(1)

NextLong == MenuFrame \/ PlayingLong \/ GameOverLong

SpecLong == Init /\ [][NextLong]_vars

\* One round, with every frame time, played one point further than the
\* rounds of Spec: the frames after a bounce are reached.
PlayingRound == PlayingFrame(FrameTimes, MaxScoreRound)

NextRound == MenuFrame \/ PlayingRound \/ GameOverLong

SpecRound == Init /\ [][NextRound]_vars

\* One round whose frame times put the player exactly on a bound.
PlayingKeys == PlayingFrame(FrameTimesKeys, MaxScoreKeys)

NextKeys == MenuFrame \/ PlayingKeys \/ GameOverLong

SpecKeys == Init /\ [][NextKeys]_vars

(***************************************************************************)
(* CheckCollision alone: a player and an axe drawn from small sets, and    *)
(* one call of the function on them.                                       *)
(***************************************************************************)
InitCollision ==
    /\ currentState = PLAYING
    /\ player \in [x : (-MaxCentre)..MaxCentre, y : (-MaxCentre)..MaxCentre,
                   radius : 1..MaxRadius]
    /\ axe \in [x : (-MaxCorner)..0, y : (-MaxCorner)..0, length : 1..MaxLength,
                speedX : {AxeStartSpeedX}, speedY : {AxeStartSpeedY}]
    /\ score = 0
    /\ highScore = 0
    /\ scoreTimer = 0
    /\ lastSpeedIncreaseScore = 0
    /\ collisionDetected = FALSE
    /\ input = NoInput
    /\ frame = NoFrame
    /\ rounds = NoRounds

CollisionCall ==
    /\ frame.began = MENU
    /\ collisionDetected' = CheckCollisionAt(player.x, player.y, player.radius,
                                             axe.x, axe.y, axe.length)
    /\ currentState' = NextState(collisionDetected')
    /\ frame' = [frame EXCEPT !.began = PLAYING]
    /\ UNCHANGED <<player, axe, score, highScore, scoreTimer,
                   lastSpeedIncreaseScore, input, rounds>>

NextCollision == CollisionCall

SpecCollision == InitCollision /\ [][NextCollision]_vars

(***************************************************************************)
(* The game state machine.                                                 *)
(***************************************************************************)
\* C1: the game starts in MENU and the only changes of state are
\* MENU -> PLAYING on a frame that saw SPACE pressed, PLAYING -> GAME_OVER
\* on a frame whose collision check was true, and GAME_OVER -> PLAYING on
\* a frame that saw R pressed; MENU is never entered again.
C1_Transitions ==
    /\ currentState = MENU
    /\ [][currentState' # currentState =>
            \/ currentState = MENU /\ currentState' = PLAYING /\ input'.space
            \/ /\ currentState = PLAYING /\ currentState' = GAME_OVER
               /\ collisionDetected'
            \/ currentState = GAME_OVER /\ currentState' = PLAYING /\ input'.r
         ]_vars

\* A round was started, lost and restarted: all three transitions happened.
C1_Witness == currentState = PLAYING /\ input.r /\ collisionDetected

(***************************************************************************)
(* Player motion.                                                          *)
(***************************************************************************)
InArena(p) ==
    /\ PlayerRadius <= p.x /\ p.x <= screenWidth - PlayerRadius
    /\ PlayerRadius <= p.y /\ p.y <= screenHeight - PlayerRadius

\* C2: after the Player::Move of every Playing frame the circle of the
\* player lies within the arena: radius <= x <= arenaWidth - radius and
\* radius <= y <= arenaHeight - radius.
C2_PlayerStaysInArena == frame.began = PLAYING => InArena(player)

(***************************************************************************)
(* Difficulty scaling.                                                     *)
(***************************************************************************)
\* C3: the magnitude of the horizontal speed of the axe never exceeds 300
\* px/s and that of its vertical speed never exceeds 400 px/s.
C3_SpeedWithinCaps ==
    Abs(axe.speedX) <= MaxSpeedX /\ Abs(axe.speedY) <= MaxSpeedY

\* C4: within a round the scaling step has fired exactly once for each
\* positive multiple of 10 the score has reached: it fires on the frame on
\* which the score arrives at the milestone, and a frame that leaves the
\* score where it was neither fires it nor changes the speed of the axe.
C4_ScalingOncePerMilestone ==
    /\ rounds.scalings = score \div Milestone
    /\ lastSpeedIncreaseScore = Milestone * (score \div Milestone)
    /\ frame.began = PLAYING =>
         /\ frame.scaled <=> (score # frame.score /\ score % Milestone = 0)
         /\ frame.scaled => lastSpeedIncreaseScore = score
         /\ score = frame.score => /\ axe.speedX = frame.moved.speedX
                                   /\ axe.speedY = frame.moved.speedY

\* A Playing frame ended with the score still at the second milestone.
C4_Witness ==
    /\ currentState = PLAYING /\ frame.began = PLAYING
    /\ score = 2 * Milestone /\ frame.score = score
    /\ rounds.scalings = 2 /\ axe.speedX \in {181500, -181500}

(***************************************************************************)
(* Score and high score.                                                   *)
(***************************************************************************)
EntersPlaying == currentState # PLAYING /\ currentState' = PLAYING

\* C5: the score is 0 right after every MENU -> PLAYING and every
\* GAME_OVER -> PLAYING transition, and no other frame decreases it.
C5_ScoreMonotone ==
    [][/\ EntersPlaying => score' = 0
       /\ ~EntersPlaying => score' >= score]_vars

\* A restart has just reset a score that was above 0.
C5_Witness ==
    currentState = PLAYING /\ input.r /\ frame.score > 0 /\ score = 0

\* C6 as written: at every frame boundary the high score equals the
\* maximum final score over the rounds that have entered GAME_OVER, the
\* end of the frame on which the state becomes GAME_OVER included.
C6_UpToDateAtCollision == highScore = rounds.best

\* C6 as amended: the high score never decreases; at every frame boundary
\* it equals the maximum final score over the completed rounds, except at
\* the end of the frame on which the state becomes GAME_OVER, where it may
\* still lack the round that just ended (the larger of high score and score
\* is then that maximum); the first frame that begins in GAME_OVER brings
\* it up to date, before any restart.
C6_HighScore ==
    /\ [](IF currentState = GAME_OVER /\ frame.began = PLAYING
          THEN highScore <= rounds.best /\ Max(highScore, score) = rounds.best
          ELSE highScore = rounds.best)
    /\ [][highScore' >= highScore]_vars

\* A second round ended below the high score, which was kept.
C6_Witness ==
    /\ currentState = GAME_OVER /\ frame.began = GAME_OVER
    /\ rounds.started = 2 /\ score < highScore

(***************************************************************************)
(* Axe motion.                                                             *)
(***************************************************************************)
Beyond(pos, limit) == pos + AxeLength > limit \/ pos < 0

\* C7: Axe::Move inverts the speed on an axis exactly when the displaced
\* square lies beyond the arena on that axis, and otherwise leaves it as
\* it was; an inversion keeps the magnitude.
C7_BounceIffBeyond ==
    [][currentState = PLAYING =>
         LET m == frame'.moved
         IN  /\ m.x = axe'.x /\ m.y = axe'.y
             /\ m.speedX = (IF Beyond(m.x, screenWidth)
                            THEN -axe.speedX ELSE axe.speedX)
             /\ m.speedY = (IF Beyond(m.y, screenHeight)
                            THEN -axe.speedY ELSE axe.speedY)
             /\ axe.speedX # 0 /\ axe.speedY # 0
      ]_vars

\* Axe::Move has just bounced the axe off the bottom edge.
C7_Witness ==
    /\ frame.began = PLAYING
    /\ frame.moved.y + AxeLength > screenHeight /\ frame.moved.speedY < 0

(***************************************************************************)
(* Score timer.                                                            *)
(***************************************************************************)
\* C8: after every Playing frame the score timer lies in [0, 1) seconds.
C8_TimerBelowOneSecond ==
    frame.began = PLAYING => (0 <= scoreTimer /\ scoreTimer < ScoreInterval)

(***************************************************************************)
(* Frames that begin in MENU or GAME_OVER.                                 *)
(***************************************************************************)
\* C9: a frame that begins in MENU or GAME_OVER and sees no start or
\* restart key leaves the player, the axe (position and speed), the score,
\* the score timer and the checkpoint unchanged.
C9_IdleFramesChangeNothing ==
    [][(currentState \in {MENU, GAME_OVER} /\ ~input'.space /\ ~input'.r) =>
         /\ player' = player /\ axe' = axe /\ score' = score
         /\ scoreTimer' = scoreTimer
         /\ lastSpeedIncreaseScore' = lastSpeedIncreaseScore
         /\ currentState' = currentState
      ]_vars

\* The frame after a collision ran in GAME_OVER without a restart.
C9_Witness ==
    /\ currentState = GAME_OVER /\ frame.began = GAME_OVER /\ ~input.r
    /\ collisionDetected /\ axe # StartAxe

\* C10: a restart leaves the round exactly as a start from the menu does:
\* player at the centre, axe at (300, 0) with speed (+150, +200), score,
\* timer and checkpoint 0; the high score is kept.
C10_RestartLikeStart ==
    [][EntersPlaying =>
         /\ player' = [x |-> 400, y |-> 225]
         /\ axe' = [x |-> 300, y |-> 0, speedX |-> 150000, speedY |-> 200000]
         /\ score' = 0 /\ scoreTimer' = 0 /\ lastSpeedIncreaseScore' = 0
         /\ highScore' >= highScore
         /\ currentState = GAME_OVER => highScore' >= score
      ]_vars

\* A restart has just reset an axe that had been bounced and a player
\* that had left the centre, after a round that scored.
C10_Witness ==
    /\ currentState = PLAYING /\ input.r
    /\ frame.moved.speedY < 0 /\ frame.score > 0 /\ highScore > 0
    /\ player = StartPlayer /\ axe = StartAxe

(***************************************************************************)
(* Collision and the end of a round.                                       *)
(***************************************************************************)
\* C11: a Playing frame ends in GAME_OVER exactly when the circle of the
\* player and the square of the axe overlap at the positions they have
\* after the motion of that same frame; otherwise the state stays PLAYING.
C11_CollisionAfterMotion ==
    [][currentState = PLAYING =>
         /\ currentState' = GAME_OVER <=> CheckCollision(player', axe')
         /\ currentState' = PLAYING <=> ~CheckCollision(player', axe')
         /\ collisionDetected' = CheckCollision(player', axe')
      ]_vars

\* A frame ended a round: the shapes overlap where the frame left them.
C11_Witness ==
    /\ currentState = GAME_OVER /\ frame.began = PLAYING
    /\ CheckCollision(player, axe) /\ player # StartPlayer

(***************************************************************************)
(* The collision function.                                                 *)
(***************************************************************************)
\* Some point of the square lies within the radius of the centre.  The
\* corners and the centre are integers, so the point of the square nearest
\* to the centre is an integer point.
Touches(p, a) ==
    \E qx \in a.x..(a.x + a.length), qy \in a.y..(a.y + a.length) :
        (p.x - qx) * (p.x - qx) + (p.y - qy) * (p.y - qy)
            <= p.radius * p.radius

\* CheckCollision on the two shapes mirrored about the vertical line x = 0.
MirroredLeftRight(p, a) ==
    CheckCollisionAt(-p.x, p.y, p.radius, -(a.x + a.length), a.y, a.length)

\* CheckCollision on the two shapes mirrored about the horizontal line y = 0.
MirroredUpDown(p, a) ==
    CheckCollisionAt(p.x, -p.y, p.radius, a.x, -(a.y + a.length), a.length)

\* C12: CheckCollision is true exactly when the distance from the centre
\* of the circle to the nearest point of the square is at most the radius
\* (equality included), and mirroring both shapes about a vertical or a
\* horizontal axis does not change the result.
C12_CollisionIsDistanceTest ==
    frame.began = PLAYING =>
        /\ collisionDetected = Touches(player, axe)
        /\ collisionDetected = MirroredLeftRight(player, axe)
        /\ collisionDetected = MirroredUpDown(player, axe)

\* The circle touches a corner of the square at exactly its radius
\* (a 3-4-5 triangle) and the call reported a collision.
C12_Witness ==
    /\ frame.began = PLAYING /\ collisionDetected
    /\ player.radius = 5
    /\ player.x = axe.x + axe.length + 3 /\ player.y = axe.y - 4

(***************************************************************************)
(* The axe at the edges of the arena.                                      *)
(***************************************************************************)
\* C13 as written: Axe::Move inverts the vertical speed whenever the moved
\* square has y + length >= arenaHeight, the exact touch y + length =
\* arenaHeight (y = 400) included.
C13_InvertedOnTouch ==
    [][currentState = PLAYING =>
         (frame'.moved.y + AxeLength >= screenHeight
            => frame'.moved.speedY = -axe.speedY)
      ]_vars

\* C13 as amended: Axe::Move inverts the vertical speed whenever the moved
\* square has y + length > arenaHeight (y > 400); on an exact touch,
\* y + length = arenaHeight (y = 400), the speed is left as it was.
C13_InvertedOnCrossing ==
    [][currentState = PLAYING =>
         LET m == frame'.moved
         IN  /\ m.y + AxeLength > screenHeight => m.speedY = -axe.speedY
             /\ m.y + AxeLength = screenHeight => m.speedY = axe.speedY
      ]_vars

\* Axe::Move has put the bottom edge exactly on the bottom of the arena
\* and the axe still travels downward.
C13_Witness ==
    /\ frame.began = PLAYING
    /\ frame.moved.y + AxeLength = screenHeight
    /\ frame.moved.speedY = AxeStartSpeedY

\* How far the square at pos reaches beyond the arena on one axis.
Overshoot(pos, limit) ==
    IF pos + AxeLength > limit THEN pos + AxeLength - limit
    ELSE IF pos < 0 THEN -pos ELSE 0

\* C14: at the end of every Playing frame the square reaches beyond the
\* arena on an axis by at most the displacement that frame applied on that
\* axis.
C14_OvershootWithinOneFrame ==
    frame.began = PLAYING =>
        /\ Overshoot(axe.x, screenWidth)
             <= Abs(Displacement(frame.moved.speedX, input.dt))
        /\ Overshoot(axe.y, screenHeight)
             <= Abs(Displacement(frame.moved.speedY, input.dt))

\* C19: at the end of every Playing frame, a square that lies beyond a
\* bound of the arena travels back toward the arena on that axis.
C19_HeadsBackInside ==
    frame.began = PLAYING =>
        /\ axe.x + AxeLength > screenWidth => axe.speedX < 0
        /\ axe.x < 0 => axe.speedX > 0
        /\ axe.y + AxeLength > screenHeight => axe.speedY < 0
        /\ axe.y < 0 => axe.speedY > 0

(***************************************************************************)
(* The high score at a restart.                                            *)
(***************************************************************************)
\* C15: whenever a restart resets the score to 0, the high score is by
\* then at least the score of the round that just ended.
C15_HighScoreBeforeReset ==
    [][(currentState = GAME_OVER /\ currentState' = PLAYING) =>
         (score' = 0 /\ highScore' >= score)]_vars

\* R was pressed on the first GAME_OVER frame of a round that beat the
\* high score: that one frame raised the high score and reset the score.
C15_Witness ==
    /\ currentState = PLAYING /\ input.r /\ frame.began = GAME_OVER
    /\ frame.high < frame.score /\ highScore = frame.score /\ score = 0

(***************************************************************************)
(* Opposite keys.                                                          *)
(***************************************************************************)
\* C16 as written: with left and right both held (or up and down both
\* held) Player::Move leaves the coordinate of that axis unchanged, at
\* every position the player can occupy.  It is stated here for the
\* positions inside the arena, bounds included, which are among them: the
\* failure owes nothing to a player that has left the arena.
C16_OppositeKeysCancel ==
    [][(currentState = PLAYING /\ InArena(player)) =>
         /\ (input'.left /\ input'.right) => player'.x = player.x
         /\ (input'.up /\ input'.down) => player'.y = player.y
      ]_vars

\* C16 as amended: with left and right both held x is unchanged wherever
\* x < arenaWidth - radius and x + movementAmount > radius; at
\* x >= arenaWidth - radius only the left move is applied, and where
\* x + movementAmount <= radius only the right one.  With up and down both
\* held y is unchanged wherever y > radius and y - movementAmount <
\* arenaHeight - radius; at y <= radius only the down move is applied, and
\* where y - movementAmount >= arenaHeight - radius only the up one.
C16_OppositeKeys ==
    [][currentState = PLAYING =>
         LET m == (300 * input'.dt) \div 1000
         IN  /\ (input'.left /\ input'.right) =>
                 player'.x = (IF player.x >= screenWidth - PlayerRadius
                              THEN player.x - m
                              ELSE IF player.x + m > PlayerRadius
                                   THEN player.x ELSE player.x + m)
             /\ (input'.up /\ input'.down) =>
                 player'.y = (IF player.y <= PlayerRadius
                              THEN player.y + m
                              ELSE IF player.y - m < screenHeight - PlayerRadius
                                   THEN player.y ELSE player.y - m)
      ]_vars

\* Left and right were both held with the player inside the arena, exactly
\* on the right bound: only the left move was applied.
C16_Witness ==
    /\ frame.began = PLAYING /\ input.left /\ input.right
    /\ InArena(frame.from) /\ frame.from.x = screenWidth - PlayerRadius
    /\ player.x < frame.from.x

(***************************************************************************)
(* Who writes the high score.                                              *)
(***************************************************************************)
\* C17: a frame that begins in MENU or in PLAYING leaves the high score
\* unchanged; only frames that begin in GAME_OVER write it.
C17_HighScoreWrittenInGameOver ==
    [][(currentState \in {MENU, PLAYING}) => highScore' = highScore]_vars

\* The frame that detected the collision ended with a score above the
\* high score, which it left as it was.
C17_Witness ==
    /\ currentState = GAME_OVER /\ frame.began = PLAYING
    /\ score > highScore /\ highScore = frame.high

(***************************************************************************)
(* Time accounting of the score.                                           *)
(***************************************************************************)
\* C18: at the end of every Playing frame score + scoreTimer equals the
\* sum of the frame times of the Playing frames of the round.
C18_NoTimeLost ==
    frame.began = PLAYING =>
        score * ScoreInterval + scoreTimer = rounds.elapsed

\* A frame longer than a second left a whole second in the timer.
C18_Witness ==
    /\ frame.began = PLAYING /\ input.dt > ScoreInterval
    /\ scoreTimer >= ScoreInterval /\ score >= 2

=============================================================================
